---- MODULE Spec2Model ----
(***************************************************************************)
(* WRS-Dojo: the word-to-tile tokenizer (parseWordToTiles) and the lesson  *)
(* text importer (parseLessonText, parseCSVLine) of src/App.tsx, and the   *)
(* save store of src/server/index.js.                                      *)
(*                                                                         *)
(* JavaScript strings are TLA+ strings; a character is a string of length  *)
(* one.  Positions in the helpers below are 0-based, as in the source.     *)
(***************************************************************************)
EXTENDS Integers, Sequences, FiniteSets, TLC

VARIABLES
    word,        \* parseWordToTiles: the argument
    remaining,   \* parseWordToTiles: the unconsumed input
    tiles,       \* parseWordToTiles: the tiles pushed so far
    pc,          \* parseWordToTiles: "idle" | "loop" | "done"
    stack,       \* parseLessonText: the call frames, outermost first
    saves,       \* server: the save files of SAVES_DIR, as [id, updatedAt]
    now,         \* server: the clock, Date.now()
    status,      \* server: the status of the last response, 0 before any
    request      \* server: the last request, as [method, id, complete]

vars == <<word, remaining, tiles, pc, stack, saves, now, status, request>>

\* a request: its method, the id of its path (NoId for a path without one)
\* and whether its body has what the handler requires (name and data)
NoId == -1
Request(method, id, complete) == [method |-> method, id |-> id, complete |-> complete]
NoRequest == Request("", NoId, TRUE)

(***************************************************************************)
(* Bounds of the checked inputs.                                           *)
(***************************************************************************)
MaxWordLen == 3
MaxLines == 3

(***************************************************************************)
(* String primitives, after the methods of String.prototype               *)
(***************************************************************************)
Min(a, b) == IF a <= b THEN a ELSE b

\* s.substring(a, b), for 0 <= a
Substring(s, a, b) == IF a >= Min(b, Len(s)) THEN "" ELSE SubSeq(s, a + 1, Min(b, Len(s)))

\* s.slice(n), s.substring(n), for 0 <= n
Slice(s, n) == IF n >= Len(s) THEN "" ELSE SubSeq(s, n + 1, Len(s))

\* s[i] as a string: "" where the source reads undefined
CharAt(s, i) == IF 0 <= i /\ i < Len(s) THEN SubSeq(s, i + 1, i + 1) ELSE ""

StartsWith(s, p) == Len(p) <= Len(s) /\ SubSeq(s, 1, Len(p)) = p

StartsWithAt(s, p, i) == i + Len(p) <= Len(s) /\ SubSeq(s, i + 1, i + Len(p)) = p

Includes(s, p) == \E i \in 0..(Len(s) - Len(p)) : SubSeq(s, i + 1, i + Len(p)) = p

\* s.indexOf(p, from): the least position >= from where p occurs, or -1
IndexOf(s, p, from) ==
    LET hits == {i \in from..(Len(s) - Len(p)) : SubSeq(s, i + 1, i + Len(p)) = p}
    IN  IF hits = {} THEN -1 ELSE CHOOSE i \in hits : \A j \in hits : i <= j

\* toLowerCase() of one character: the ASCII letters (the inputs are ASCII)
LowerOf ==
    [A |-> "a", B |-> "b", C |-> "c", D |-> "d", E |-> "e", F |-> "f", G |-> "g",
     H |-> "h", I |-> "i", J |-> "j", K |-> "k", L |-> "l", M |-> "m", N |-> "n",
     O |-> "o", P |-> "p", Q |-> "q", R |-> "r", S |-> "s", T |-> "t", U |-> "u",
     V |-> "v", W |-> "w", X |-> "x", Y |-> "y", Z |-> "z"]

UpperLetters == DOMAIN LowerOf
LowerLetters == {LowerOf[c] : c \in UpperLetters}
Digits == {"0", "1", "2", "3", "4", "5", "6", "7", "8", "9"}

\* the character classes [a-zA-Z0-9], \w and \s (also what trim() removes)
Alnum == UpperLetters \cup LowerLetters \cup Digits
WordChars == Alnum \cup {"_"}
Whitespace == {" ", "\t", "\n", "\r", "\f"}

LowerChar(c) == IF c \in UpperLetters THEN LowerOf[c] ELSE c

RECURSIVE ToLowerCase(_)
ToLowerCase(s) ==
    IF s = "" THEN "" ELSE LowerChar(CharAt(s, 0)) \o ToLowerCase(Slice(s, 1))

\* the length of the longest run of characters of the class in s from position i on
RECURSIVE RunLen(_, _, _)
RunLen(class, s, i) ==
    IF i < Len(s) /\ CharAt(s, i) \in class THEN 1 + RunLen(class, s, i + 1) ELSE 0

(***************************************************************************)
(* parseWordToTiles                                                        *)
(***************************************************************************)
Tile(text, type) == [text |-> text, type |-> type]

weldedSounds == <<"all", "am", "an", "ang", "ing", "ong", "ung", "ank", "ink", "onk",
                  "unk", "ild", "ind", "old", "ost", "olt", "ive">>

vowelTeams == <<"eigh", "igh", "ai", "ay", "ee", "ea", "ey", "oi", "oy", "oa", "oe",
                "ow", "ou", "oo", "ue", "ew", "au", "aw", "ie", "ei", "ui">>

digraphs == <<"sh", "ch", "th", "wh", "ck", "ph", "qu", "wr", "kn", "gn", "mb", "tch",
              "dge">>

vowelsWithoutY == {"a", "e", "i", "o", "u"}
vowels == {"a", "e", "i", "o", "u", "y"}

rControlled == <<"ar", "or", "er", "ir", "ur">>

\* for (const e of table) if (current.startsWith(e)) ...: the first entry in
\* table order that prefixes current, or "" when there is none
FirstEntry(table, current) ==
    LET hits == {k \in 1..Len(table) : StartsWith(current, table[k])}
    IN  IF hits = {} THEN "" ELSE table[CHOOSE k \in hits : \A j \in hits : k <= j]

\* remaining.match(/^\|([^|]*)\|/): the position of the closing bar, or -1
syllableMatch(rem) == IF StartsWith(rem, "|") THEN IndexOf(rem, "|", 1) ELSE -1

\* a search for the closing delimiter that starts at the opener itself
OverrideCloseFromStart(rem, open, closing, from) ==
    IF StartsWith(rem, open) THEN IndexOf(rem, closing, 0) ELSE -1

\* a search that takes the end of the input for a missing closing delimiter
OverrideCloseOrEnd(rem, open, closing, from) ==
    IF ~StartsWith(rem, open) THEN -1
    ELSE IF IndexOf(rem, closing, from) = -1 THEN Len(rem)
    ELSE IndexOf(rem, closing, from)

\* remaining.startsWith(open) with close = remaining.indexOf(closing[, from])
OverrideClose(rem, open, closing, from) ==
    IF StartsWith(rem, open) THEN IndexOf(rem, closing, from) ELSE -1

\* remaining.match(/^-([a-zA-Z0-9]+)/): the length of the match, or 0
suffixMatchLettersOnly(rem) ==
    IF StartsWith(rem, "-") /\ RunLen(UpperLetters \cup LowerLetters, rem, 1) > 0
    THEN 1 + RunLen(UpperLetters \cup LowerLetters, rem, 1) ELSE 0
suffixMatch(rem) ==
    IF StartsWith(rem, "-") /\ RunLen(Alnum, rem, 1) > 0
    THEN 1 + RunLen(Alnum, rem, 1) ELSE 0

\* remaining.match(/^([a-zA-Z0-9]+)-/): the length of the match, or 0
prefixMatch(rem) ==
    LET n == RunLen(Alnum, rem, 0)
    IN  IF n > 0 /\ CharAt(rem, n) = "-" THEN n + 1 ELSE 0

\* The branch one iteration of the while loop takes, in the order of the code.
Rule(rem) ==
    LET current == ToLowerCase(rem)
    IN  IF StartsWith(rem, " ") THEN "space"
        ELSE IF syllableMatch(rem) # -1 THEN "syllable"
        ELSE IF OverrideClose(rem, "<", ">", 0) # -1 THEN "affix"
        ELSE IF suffixMatch(rem) > 0 THEN "suffix"
        ELSE IF prefixMatch(rem) > 0 THEN "prefix"
        ELSE IF OverrideClose(rem, "[", "]", 0) # -1 THEN "vowelOverride"
        ELSE IF OverrideClose(rem, "{", "}", 0) # -1 THEN "consonantOverride"
        ELSE IF OverrideClose(rem, "/", "/", 1) # -1 THEN "weldedOverride"
        ELSE IF FirstEntry(weldedSounds, current) # "" THEN "welded"
        ELSE IF FirstEntry(vowelTeams, current) # "" THEN "vowelTeam"
        ELSE IF FirstEntry(rControlled, current) # "" THEN "rControl"
        ELSE IF FirstEntry(digraphs, current) # "" THEN "digraph"
        ELSE "single"

\* the number of characters the branch removes from remaining
Consumed(rule, rem) ==
    LET current == ToLowerCase(rem)
    IN  CASE rule = "space" -> 1
          [] rule = "syllable" -> syllableMatch(rem) + 1
          [] rule = "affix" -> OverrideClose(rem, "<", ">", 0) + 1
          [] rule = "suffix" -> suffixMatch(rem)
          [] rule = "prefix" -> prefixMatch(rem)
          [] rule = "vowelOverride" -> OverrideClose(rem, "[", "]", 0) + 1
          [] rule = "consonantOverride" -> OverrideClose(rem, "{", "}", 0) + 1
          [] rule = "weldedOverride" -> OverrideClose(rem, "/", "/", 1) + 1
          [] rule = "welded" -> Len(FirstEntry(weldedSounds, current))
          [] rule = "vowelTeam" -> Len(FirstEntry(vowelTeams, current))
          [] rule = "rControl" -> Len(FirstEntry(rControlled, current))
          [] rule = "digraph" -> Len(FirstEntry(digraphs, current))
          [] OTHER -> 1

\* remaining.substring(1, close): the text between an override's delimiters
OverrideTextKeepsDelimiters(rem, close) == Substring(rem, 0, close + 1)
OverrideText(rem, close) == Substring(rem, 1, close)

\* remaining.substring(0, entry.length): the matched text, in its original case
AutoTextLowerCased(rem, n) == Substring(ToLowerCase(rem), 0, n)
AutoText(rem, n) == Substring(rem, 0, n)

\* the tile the branch pushes
Pushed(rule, rem) ==
    LET n == Consumed(rule, rem)
    IN  CASE rule = "space" -> Tile("", "space")
          [] rule = "syllable" -> Tile(Substring(rem, 1, n - 1), "syllable")
          [] rule = "affix" -> Tile(OverrideText(rem, n - 1), "suffix")
          [] rule = "suffix" -> Tile(Substring(rem, 0, n), "suffix")
          [] rule = "prefix" -> Tile(Substring(rem, 0, n), "prefix")
          [] rule = "vowelOverride" -> Tile(OverrideText(rem, n - 1), "vowel")
          [] rule = "consonantOverride" -> Tile(OverrideText(rem, n - 1), "consonant")
          [] rule = "weldedOverride" -> Tile(OverrideText(rem, n - 1), "welded")
          [] rule = "welded" -> Tile(AutoText(rem, n), "welded")
          [] rule = "vowelTeam" -> Tile(AutoText(rem, n), "vowelTeam")
          [] rule = "rControl" -> Tile(AutoText(rem, n), "rControl")
          [] rule = "digraph" -> Tile(AutoText(rem, n), "digraph")
          [] OTHER -> IF LowerChar(CharAt(rem, 0)) \in vowels
                      THEN Tile(CharAt(rem, 0), "vowel")
                      ELSE Tile(CharAt(rem, 0), "consonant")

\* an iteration that pushes its tile and forgets to shorten remaining
IterateWithoutAdvance(rule) ==
    /\ tiles' = Append(tiles, Pushed(rule, remaining))
    /\ remaining' = IF rule = "single" THEN remaining
                    ELSE Slice(remaining, Consumed(rule, remaining))
    /\ UNCHANGED <<word, pc, stack, saves, now, status, request>>

\* the effect of one iteration of while (remaining.length > 0) taking the branch
Iterate(rule) ==
    /\ tiles' = Append(tiles, Pushed(rule, remaining))
    /\ remaining' = Slice(remaining, Consumed(rule, remaining))
    /\ UNCHANGED <<word, pc, stack, saves, now, status, request>>

\* the branch is taken: the loop runs and the branch is the first that matches
Taken(rule) == pc = "loop" /\ Len(remaining) > 0 /\ Rule(remaining) = rule

SpaceTile ==
    /\ Taken("space")
    /\ Iterate("space")

SyllableCard ==
    /\ Taken("syllable")
    /\ Iterate("syllable")

AffixOverride ==
    /\ Taken("affix")
    /\ Iterate("affix")

SuffixTile ==
    /\ Taken("suffix")
    /\ Iterate("suffix")

PrefixTile ==
    /\ Taken("prefix")
    /\ Iterate("prefix")

VowelOverride ==
    /\ Taken("vowelOverride")
    /\ Iterate("vowelOverride")

ConsonantOverride ==
    /\ Taken("consonantOverride")
    /\ Iterate("consonantOverride")

WeldedOverride ==
    /\ Taken("weldedOverride")
    /\ Iterate("weldedOverride")

WeldedSound ==
    /\ Taken("welded")
    /\ Iterate("welded")

VowelTeam ==
    /\ Taken("vowelTeam")
    /\ Iterate("vowelTeam")

RControlled ==
    /\ Taken("rControl")
    /\ Iterate("rControl")

Digraph ==
    /\ Taken("digraph")
    /\ Iterate("digraph")

SingleLetter ==
    /\ Taken("single")
    /\ Iterate("single")

\* the loop condition fails: return tiles
ReturnTiles ==
    /\ pc = "loop"
    /\ Len(remaining) = 0
    /\ pc' = "done"
    /\ UNCHANGED <<word, remaining, tiles, stack, saves, now, status, request>>

(***************************************************************************)
(* The words the tokenizer is checked on: every string of at most          *)
(* MaxWordLen characters of TileAlphabet, every entry of the four tables,  *)
(* and the words the specification names.                                  *)
(***************************************************************************)
TileAlphabet == {"a", "n", "A", "1", " ", "-", "|", "<", ">", "[", "]", "{", "}", "/"}

RECURSIVE StringsUpTo(_, _)
StringsUpTo(alphabet, n) ==
    IF n = 0 THEN {""}
    ELSE LET shorter == StringsUpTo(alphabet, n - 1)
         IN  shorter \cup {s \o c : s \in shorter, c \in alphabet}

Range(f) == {f[k] : k \in DOMAIN f}

NamedWords ==
    {"ing", "ear", "x", "-ing", "run-", "{cat", "{a}", "[a]", "/an/", "ship", "Car",
     "the cat", "<ed>", "|re|", "{sh}", "[ing]", "/x y/", "-ing1", "A1-", "Yak"}

Words ==
    StringsUpTo(TileAlphabet, MaxWordLen) \cup NamedWords
        \cup Range(weldedSounds) \cup Range(vowelTeams) \cup Range(rControlled)
        \cup Range(digraphs)

TokenizerInit ==
    /\ word \in Words
    /\ remaining = word
    /\ tiles = <<>>
    /\ pc = "loop"
    /\ stack = <<>>
    /\ saves = {}
    /\ now = 0
    /\ status = 0
    /\ request = NoRequest

TokenizerNext ==
    \/ SpaceTile
    \/ SyllableCard
    \/ AffixOverride
    \/ SuffixTile
    \/ PrefixTile
    \/ VowelOverride
    \/ ConsonantOverride
    \/ WeldedOverride
    \/ WeldedSound
    \/ VowelTeam
    \/ RControlled
    \/ Digraph
    \/ SingleLetter
    \/ ReturnTiles

TokenizerSpec == TokenizerInit /\ [][TokenizerNext]_vars

(***************************************************************************)
(* More string and array primitives, for the importer                      *)
(***************************************************************************)
\* what the source reads as undefined: an absent argument, field or cell
Undefined == "<undefined>"

\* the truthiness of a string or undefined
Truthy(v) == v # Undefined /\ v # ""

\* s.trim()
TrimStart(s) == Slice(s, RunLen(Whitespace, s, 0))

RECURSIVE TrimEnd(_)
TrimEnd(s) ==
    IF s # "" /\ CharAt(s, Len(s) - 1) \in Whitespace
    THEN TrimEnd(Substring(s, 0, Len(s) - 1)) ELSE s

Trim(s) == TrimEnd(TrimStart(s))

\* s.split(sep) for a separator that is one character of seps: s.split('\n'),
\* s.split(/:/), s.split(/,|\n/)
RECURSIVE SplitOn(_, _)
SplitOn(s, seps) ==
    LET hits == {i \in 0..(Len(s) - 1) : CharAt(s, i) \in seps}
        first == CHOOSE i \in hits : \A j \in hits : i <= j
    IN  IF hits = {} THEN <<s>>
        ELSE <<Substring(s, 0, first)>> \o SplitOn(Slice(s, first + 1), seps)

\* array.map(s => s.trim())
TrimAll(seq) == [k \in 1..Len(seq) |-> Trim(seq[k])]

\* s.replace(/[...]/g, ''): s without the characters of chars
RECURSIVE RemoveChars(_, _)
RemoveChars(s, chars) ==
    IF s = "" THEN ""
    ELSE (IF CharAt(s, 0) \in chars THEN "" ELSE CharAt(s, 0))
             \o RemoveChars(Slice(s, 1), chars)

\* s.replace(/\t/g, ' ')
RECURSIVE TabsToSpaces(_)
TabsToSpaces(s) ==
    IF s = "" THEN ""
    ELSE (IF CharAt(s, 0) = "\t" THEN " " ELSE CharAt(s, 0)) \o TabsToSpaces(Slice(s, 1))

\* s.replace(/^\d+[\.)]\s*/, '')
StripLeadingNumber(s) ==
    LET n == RunLen(Digits, s, 0)
    IN  IF n > 0 /\ CharAt(s, n) \in {".", ")"}
        THEN Slice(s, n + 1 + RunLen(Whitespace, s, n + 1)) ELSE s

\* s.split(/:(.+)/)[1] || '': what follows the first colon that has a character
\* other than a line terminator after it, up to the next line terminator
LineTerminators == {"\n", "\r"}

RECURSIVE RunLenNot(_, _, _)
RunLenNot(class, s, i) ==
    IF i < Len(s) /\ CharAt(s, i) \notin class THEN 1 + RunLenNot(class, s, i + 1) ELSE 0

AfterColon(s) ==
    LET hits == {i \in 0..(Len(s) - 2) :
                    CharAt(s, i) = ":" /\ CharAt(s, i + 1) \notin LineTerminators}
        first == CHOOSE i \in hits : \A j \in hits : i <= j
    IN  IF hits = {} THEN ""
        ELSE Substring(s, first + 1, first + 1 + RunLenNot(LineTerminators, s, first + 1))

\* line.split(/:/)[1]: the text between the first colon and the second
SecondPiece(line) ==
    LET pieces == SplitOn(line, {":"})
    IN  IF Len(pieces) >= 2 THEN pieces[2] ELSE Undefined

(***************************************************************************)
(* parseCSVLine                                                            *)
(***************************************************************************)
\* the loop over the characters of line, from i with result, current and
\* inQuotes as they stand, and the result.push(current) after it
RECURSIVE ScanCSV(_, _, _, _, _)
ScanCSV(line, i, result, current, inQuotes) ==
    LET char == CharAt(line, i)
        branch == IF char = "\""
                  THEN (IF inQuotes /\ CharAt(line, i + 1) = "\"" THEN "escaped"
                        ELSE "quote")
                  ELSE IF char = "," /\ ~inQuotes THEN "comma"
                  ELSE "other"
    IN  IF i >= Len(line) THEN Append(result, current)
        ELSE ScanCSV(line,
                     IF branch = "escaped" THEN i + 2 ELSE i + 1,
                     IF branch = "comma" THEN Append(result, current) ELSE result,
                     CASE branch = "escaped" -> current \o "\""
                       [] branch = "quote" -> current
                       [] branch = "comma" -> ""
                       [] OTHER -> current \o char,
                     IF branch = "quote" THEN ~inQuotes ELSE inQuotes)

\* s.trim().replace(/^"|"$/g, '').trim()
CleanQuotes(s) ==
    LET t == Trim(s)
        u == IF StartsWith(t, "\"") THEN Slice(t, 1) ELSE t
        v == IF u # "" /\ CharAt(u, Len(u) - 1) = "\"" THEN Substring(u, 0, Len(u) - 1)
             ELSE u
    IN  Trim(v)

parseCSVLine(line) ==
    LET result == ScanCSV(line, 0, <<>>, "", FALSE)
    IN  [k \in 1..Len(result) |-> CleanQuotes(result[k])]

(***************************************************************************)
(* parseLessonText: its helpers                                            *)
(***************************************************************************)
\* the bullets of /^[-*...]\s+/ (its two non-ASCII bullets cannot be written
\* in a TLA+ string; the checked inputs are ASCII)
Bullets == {"-", "*"}

StripBullet(s) ==
    IF CharAt(s, 0) \in Bullets /\ RunLen(Whitespace, s, 1) > 0
    THEN Slice(s, 1 + RunLen(Whitespace, s, 1)) ELSE s

cleanLine(l) == TabsToSpaces(RemoveChars(StripBullet(Trim(l)), {"[", "]"}))

NonEmpty(s) == Len(s) > 0

\* text.split('\n').map(l => l.trim()).filter(l => l.length > 0)
rawLinesOf(text) == SelectSeq(TrimAll(SplitOn(text, {"\n"})), NonEmpty)

\* str.split(/,|;|\t|\s{2,}/): at each position the first alternative that
\* matches separates; a run of two or more white-space characters is one
\* separator
RECURSIVE SplitList(_, _, _)
SplitList(s, i, current) ==
    LET char == CharAt(s, i)
        run == RunLen(Whitespace, s, i)
    IN  IF i >= Len(s) THEN <<current>>
        ELSE IF char \in {",", ";", "\t"} THEN <<current>> \o SplitList(s, i + 1, "")
        ELSE IF run >= 2 THEN <<current>> \o SplitList(s, i + run, "")
        ELSE SplitList(s, i + 1, current \o char)

\* a filter that drops the empty pieces only
KeptItemNonEmpty(s) == Len(s) > 0

KeptItem(s) == Len(s) > 0 /\ ~Includes(ToLowerCase(s), "word count")

extractList(str) ==
    LET afterColon == IF Includes(str, ":") THEN AfterColon(str) ELSE str
        unnumbered == StripLeadingNumber(afterColon)
    IN  SelectSeq(TrimAll(SplitList(unnumbered, 0, "")), KeptItem)

\* the leftmost of the positions where a pattern matches, or -1 for no match
FirstPosition(hits) ==
    IF hits = {} THEN -1 ELSE CHOOSE p \in hits : \A q \in hits : p <= q

\* \b at position p, before a word character
BoundaryBefore(text, p) == p = 0 \/ CharAt(text, p - 1) \notin WordChars

\* (\d+)\.(\d+)\b at position p
NumberPairAt(text, p) ==
    LET n1 == RunLen(Digits, text, p)
        n2 == RunLen(Digits, text, p + n1 + 1)
    IN  /\ n1 > 0
        /\ CharAt(text, p + n1) = "."
        /\ n2 > 0
        /\ CharAt(text, p + n1 + 1 + n2) \notin WordChars

\* /\bStep\s*(\d+)\.(\d+)\b/i at position p
StepPatternAt(text, p) ==
    /\ BoundaryBefore(text, p)
    /\ ToLowerCase(Substring(text, p, p + 4)) = "step"
    /\ NumberPairAt(text, p + 4 + RunLen(Whitespace, text, p + 4))

\* /\b(\d+)\.(\d+)\b/ at position p
BarePatternAt(text, p) == BoundaryBefore(text, p) /\ NumberPairAt(text, p)

\* the two groups of the number pair at position p
Groups(text, p) ==
    LET n1 == RunLen(Digits, text, p)
    IN  <<Substring(text, p, p + n1),
          Substring(text, p + n1 + 1, p + n1 + 1 + RunLen(Digits, text, p + n1 + 1))>>

\* a match that is the leftmost occurrence of either pattern
stepMatchLeftmost(text) ==
    LET a == FirstPosition({p \in 0..(Len(text) - 1) : StepPatternAt(text, p)})
        b == FirstPosition({p \in 0..(Len(text) - 1) : BarePatternAt(text, p)})
    IN  IF a # -1 /\ a < b THEN Groups(text, a + 4 + RunLen(Whitespace, text, a + 4))
        ELSE IF b # -1 THEN Groups(text, b)
        ELSE <<>>

\* text.match(/\bStep.../i) || text.match(/\b(\d+)\.(\d+)\b/): the groups of
\* the match, or <<>> for null
stepMatch(text) ==
    LET a == FirstPosition({p \in 0..(Len(text) - 1) : StepPatternAt(text, p)})
        b == FirstPosition({p \in 0..(Len(text) - 1) : BarePatternAt(text, p)})
    IN  IF a # -1 THEN Groups(text, a + 4 + RunLen(Whitespace, text, a + 4))
        ELSE IF b # -1 THEN Groups(text, b)
        ELSE <<>>

(***************************************************************************)
(* parseLessonText: one frame of the stack per call                        *)
(***************************************************************************)
EmptyDictation ==
    [sounds |-> <<>>, realWords |-> <<>>, wordElements |-> <<>>,
     nonsenseWords |-> <<>>, phrases |-> <<>>, sentences |-> <<>>]

\* const extracted = {...}: step, substep and passage are absent
EmptyExtracted ==
    [step |-> Undefined, substep |-> Undefined, quickDrill |-> <<>>, hfwList |-> <<>>,
     wordCards |-> <<>>, sentences |-> <<>>, passage |-> Undefined,
     dictation |-> EmptyDictation]

\* a call of parseLessonText(text, targetStep, targetSubstep), at its entry
NewFrame(text, targetStep, targetSubstep) ==
    [text |-> text, targetStep |-> targetStep, targetSubstep |-> targetSubstep,
     pc |-> "detect", extracted |-> EmptyExtracted, lines |-> <<>>, headers |-> <<>>,
     i |-> 0,
     dataRow |-> <<>>, rawLines |-> <<>>, currentSection |-> "none",
     dictationSubMode |-> "none"]

\* the running call
Top == stack[Len(stack)]

TokenizerIdle == UNCHANGED <<word, remaining, tiles, pc>>

ServerIdle == UNCHANGED <<saves, now, status, request>>

\* the running call moves to frame f
Step(f) == stack' = [stack EXCEPT ![Len(stack)] = f] /\ TokenizerIdle /\ ServerIdle

\* { id: generateId(), text: w, type: 'regular' }; the random id is read by
\* nothing here and is left out
RegularCard(w) == [text |-> w, type |-> "regular"]

\* list.map(w => ({ id: generateId(), text: w, type: 'regular' }))
Cards(list) == [k \in 1..Len(list) |-> RegularCard(list[k])]

(***************************************************************************)
(* The CSV path                                                            *)
(***************************************************************************)
firstLine(f) == Trim(f.lines[1])

\* a detector that takes two lines for enough
isCSVWithTwoLines(f) ==
    \/ StartsWith(firstLine(f), ",,")
    \/ (Includes(firstLine(f), ",") /\ Len(f.lines) > 1)

isCSV(f) ==
    \/ StartsWith(firstLine(f), ",,")
    \/ (Includes(firstLine(f), ",") /\ Len(f.lines) > 2)

headerRow(f) == parseCSVLine(firstLine(f))

\* const cleanH = h.toLowerCase().trim()
cleanH(h) == Trim(ToLowerCase(h))

\* indices[name]: the last column whose cleaned header is name, or -1 for a
\* name that is no key of indices
indices(f, name) ==
    LET hits == {k \in 1..Len(f.headers) : f.headers[k] = name}
    IN  IF hits = {} THEN -1 ELSE (CHOOSE k \in hits : \A j \in hits : j <= k) - 1

\* array[k] for a 0-based k, undefined past the end
At(array, k) == IF 0 <= k /\ k < Len(array) THEN array[k + 1] ELSE Undefined

targetIdentifier(f) ==
    IF Truthy(f.targetStep) /\ Truthy(f.targetSubstep)
    THEN f.targetStep \o "." \o f.targetSubstep ELSE Undefined

\* const lines = text.split('\n'), then the branch on isCSV
Detected(f) == [f EXCEPT !.lines = SplitOn(f.text, {"\n"})]

\* the header row is read and the row loop is entered at row i
EnterRows(f, i) ==
    [f EXCEPT !.headers = [k \in 1..Len(headerRow(f)) |-> cleanH(headerRow(f)[k])],
              !.pc = "rows", !.i = i]

\* the row loop starts at the header row
DetectCSVFromHeaderRow ==
    /\ stack # <<>>
    /\ Top.pc = "detect"
    /\ isCSV(Detected(Top))
    /\ Step(EnterRows(Detected(Top), 0))

DetectCSV ==
    /\ stack # <<>>
    /\ Top.pc = "detect"
    /\ isCSV(Detected(Top))
    /\ Step(EnterRows(Detected(Top), 1))

DetectFreeform ==
    /\ stack # <<>>
    /\ Top.pc = "detect"
    /\ ~isCSV(Detected(Top))
    /\ Step([Detected(Top) EXCEPT !.pc = "text"])

\* one iteration of for (let i = 1; i < lines.length; i++): what happens to row i
RowOutcome(f) ==
    LET row == parseCSVLine(f.lines[f.i + 1])
        col0 == Trim(row[1])
        lessonPlan == indices(f, "lesson plan")
        colLessonPlan == IF lessonPlan # -1
                         THEN (IF At(row, lessonPlan) = Undefined THEN Undefined
                               ELSE Trim(At(row, lessonPlan)))
                         ELSE ""
    IN  IF Len(row) < 2 THEN "continue"
        ELSE IF targetIdentifier(f) # Undefined
             THEN IF col0 = targetIdentifier(f) THEN "break"
                  \* undefined.startsWith(...): a TypeError
                  ELSE IF colLessonPlan = Undefined THEN "throw"
                  ELSE IF StartsWith(colLessonPlan, targetIdentifier(f)) THEN "break"
                  ELSE "next"
             ELSE IF Truthy(col0) \/ Truthy(colLessonPlan) THEN "break"
                  ELSE "next"

InRowLoop(outcome) ==
    /\ stack # <<>>
    /\ Top.pc = "rows"
    /\ Top.i < Len(Top.lines)
    /\ RowOutcome(Top) = outcome

SkipShortRow ==
    /\ InRowLoop("continue")
    /\ Step([Top EXCEPT !.i = @ + 1])

SkipOtherRow ==
    /\ InRowLoop("next")
    /\ Step([Top EXCEPT !.i = @ + 1])

SelectRow ==
    /\ InRowLoop("break")
    /\ Step([Top EXCEPT !.dataRow = parseCSVLine(Top.lines[Top.i + 1]), !.pc = "extract"])

RowThrows ==
    /\ InRowLoop("throw")
    /\ Step([Top EXCEPT !.pc = "threw"])

\* the loop ends with dataRow still null: on to the text parser
RowsExhausted ==
    /\ stack # <<>>
    /\ Top.pc = "rows"
    /\ Top.i >= Len(Top.lines)
    /\ Step([Top EXCEPT !.pc = "text"])

\* getCol(possibleHeaders)
RECURSIVE getCol(_, _)
getCol(f, possibleHeaders) ==
    IF possibleHeaders = <<>> THEN ""
    ELSE LET idx == indices(f, ToLowerCase(Head(possibleHeaders)))
         IN  IF idx # -1 /\ Truthy(At(f.dataRow, idx)) THEN At(f.dataRow, idx)
             ELSE getCol(f, Tail(possibleHeaders))

\* a list field that is absent (undefined) instead of a list
AbsentList == <<Undefined>>

\* a getList that returns nothing for a column that is missing or empty
getListOrAbsent(f, possibleHeaders) ==
    LET raw == getCol(f, possibleHeaders)
    IN  IF Truthy(raw) THEN SelectSeq(TrimAll(SplitOn(raw, {",", "\n"})), NonEmpty)
        ELSE AbsentList

\* getList(possibleHeaders)
getList(f, possibleHeaders) ==
    LET raw == getCol(f, possibleHeaders)
    IN  IF Truthy(raw) THEN SelectSeq(TrimAll(SplitOn(raw, {",", "\n"})), NonEmpty)
        ELSE <<>>

LongerThan5(s) == Len(s) > 5

\* the fields taken from the data row, before the dictation cell is parsed
FromRow(f) ==
    LET rawSentences == getCol(f, <<"sentences", "reading sentences">>)
    IN  [f.extracted EXCEPT
            !.hfwList = getList(f, <<"new sight words", "sight words">>),
            !.quickDrill = getList(f, <<"new sound cards", "pa drill", "spelling sounds">>),
            !.wordCards = Cards(
                              getList(f, <<"new vocab words">>)
                                  \o getList(f, <<"vocab from sentences">>)
                                  \o getList(f, <<"vocab from connected text">>)),
            !.sentences = IF Truthy(rawSentences)
                          THEN SelectSeq(TrimAll(SplitOn(rawSentences, {"\n"})),
                                         LongerThan5)
                          ELSE @,
            !.passage = getCol(f, <<"connected text", "reader">>)]

\* if (!extracted.step && targetStep) ...; if (!extracted.substep && targetSubstep) ...
WithTargets(f, extracted) ==
    [extracted EXCEPT
        !.step = IF ~Truthy(@) /\ Truthy(f.targetStep) THEN f.targetStep ELSE @,
        !.substep = IF ~Truthy(@) /\ Truthy(f.targetSubstep) THEN f.targetSubstep ELSE @]

dictationText(f) == getCol(f, <<"dictation">>)

\* the data row has no dictation cell: return extracted
ExtractRow ==
    /\ stack # <<>>
    /\ Top.pc = "extract"
    /\ ~Truthy(dictationText(Top))
    /\ Step([Top EXCEPT !.extracted = WithTargets(Top, FromRow(Top)), !.pc = "return"])

\* parseLessonText(dictationText): the call on the dictation cell
ExtractRowAndRecurse ==
    /\ stack # <<>>
    /\ Top.pc = "extract"
    /\ Truthy(dictationText(Top))
    /\ stack' = Append([stack EXCEPT ![Len(stack)] =
                           [Top EXCEPT !.extracted = FromRow(Top), !.pc = "call"]],
                       NewFrame(dictationText(Top), Undefined, Undefined))
    /\ TokenizerIdle
    /\ ServerIdle

\* the call on the dictation cell returns: its dictation lists are taken over
DictationReturns ==
    /\ Len(stack) >= 2
    /\ Top.pc = "return"
    /\ stack[Len(stack) - 1].pc = "call"
    /\ LET caller == stack[Len(stack) - 1]
           merged == [caller.extracted EXCEPT !.dictation = Top.extracted.dictation]
       IN  stack' = Append(SubSeq(stack, 1, Len(stack) - 2),
                           [caller EXCEPT !.extracted = WithTargets(caller, merged),
                                          !.pc = "return"])
    /\ TokenizerIdle
    /\ ServerIdle

(***************************************************************************)
(* The text path                                                           *)
(***************************************************************************)
\* the step/substep detection and the split into raw lines, before the loop
DetectStep ==
    /\ stack # <<>>
    /\ Top.pc = "text"
    /\ LET m == stepMatch(Top.text)
       IN  Step([Top EXCEPT
                    !.extracted.step = IF m # <<>> THEN m[1] ELSE @,
                    !.extracted.substep = IF m # <<>> THEN m[2] ELSE @,
                    !.rawLines = rawLinesOf(Top.text),
                    !.i = 0,
                    !.currentSection = "none",
                    !.dictationSubMode = "none",
                    !.pc = "lines"])

\* a keyword test that looks at the start of the line only
StartsWithAny(s, keywords) == \E k \in keywords : StartsWith(s, k)

IncludesAny(s, keywords) == \E k \in keywords : Includes(s, k)

\* the branch the loop body takes on the cleaned line: a section header, or
\* the content branch of the current section
LineBranch(f) ==
    LET lower == ToLowerCase(cleanLine(f.rawLines[f.i + 1]))
    IN  IF IncludesAny(lower, {"quick drill", "visual drill", "part 1"})
        THEN "quickDrillHeader"
        ELSE IF IncludesAny(lower, {"word cards", "word list", "part 3",
                                    "words for reading"})
        THEN "wordCardsHeader"
        ELSE IF IncludesAny(lower, {"sight words", "hfw", "high frequency"})
        THEN "hfwHeader"
        ELSE IF IncludesAny(lower, {"sentences for reading", "part 5",
                                    "reading sentences"})
        THEN "sentencesHeader"
        ELSE IF IncludesAny(lower, {"dictation", "part 8"}) THEN "dictationHeader"
        ELSE IF IncludesAny(lower, {"passage", "story", "part 9"}) THEN "passageHeader"
        ELSE f.currentSection

\* a header whose items are list-extracted from the whole line
HeaderItemsOfLine(line) == IF Includes(line, ":") THEN extractList(line) ELSE <<>>

\* const content = line.split(/:/)[1]; if (content && content.trim()) ...:
\* the items a header line carries
HeaderItems(line) ==
    LET content == SecondPiece(line)
    IN  IF Truthy(content) /\ Trim(content) # "" THEN extractList(content) ELSE <<>>

\* the explicit headers of the dictation sub-sections, in the order tested;
\* Undefined when none of the tests holds
KeywordSubMode(lower) ==
    IF StartsWith(lower, "sound") \/ Includes(lower, "sounds:") \/ Includes(lower, "sounds")
    THEN "sounds"
    ELSE IF StartsWith(lower, "real") \/ Includes(lower, "real words:")
                \/ Includes(lower, "words")
    THEN "real"
    ELSE IF StartsWith(lower, "element") \/ Includes(lower, "word elements:")
                \/ Includes(lower, "welded")
    THEN "elements"
    ELSE IF StartsWith(lower, "nonsense") \/ Includes(lower, "nonsense words:")
    THEN "nonsense"
    ELSE IF StartsWith(lower, "phrase") \/ Includes(lower, "phrases:") THEN "phrases"
    ELSE IF StartsWith(lower, "sentence") \/ Includes(lower, "sentences:")
    THEN "sentences"
    ELSE Undefined

\* rawLine.match(/^n[\.)]/)
Marked(rawLine, n) == CharAt(rawLine, 0) = n /\ CharAt(rawLine, 1) \in {".", ")"}

\* a numbering that sends the marker 6 to the phrases
NumericSubModeSixAsPhrases(rawLine) ==
    IF Marked(rawLine, "1") THEN "sounds"
    ELSE IF Marked(rawLine, "2") THEN "real"
    ELSE IF Marked(rawLine, "3") THEN "elements"
    ELSE IF Marked(rawLine, "4") THEN "nonsense"
    ELSE IF Marked(rawLine, "5") THEN "phrases"
    ELSE IF Marked(rawLine, "6") THEN "phrases"
    ELSE Undefined

\* the numeric headers 1. to 6.; Undefined when the raw line has none
NumericSubMode(rawLine) ==
    IF Marked(rawLine, "1") THEN "sounds"
    ELSE IF Marked(rawLine, "2") THEN "real"
    ELSE IF Marked(rawLine, "3") THEN "elements"
    ELSE IF Marked(rawLine, "4") THEN "nonsense"
    ELSE IF Marked(rawLine, "5") THEN "phrases"
    ELSE IF Marked(rawLine, "6") THEN "sentences"
    ELSE Undefined

\* a sub-mode that is resolved afresh on every line: a line with no keyword
\* and no marker has the sub-mode none
detectedSubModeAfresh(f) ==
    LET rawLine == f.rawLines[f.i + 1]
        keyword == KeywordSubMode(ToLowerCase(cleanLine(rawLine)))
    IN  IF keyword # Undefined THEN keyword
        ELSE IF NumericSubMode(rawLine) # Undefined THEN NumericSubMode(rawLine)
        ELSE "none"

\* the sub-mode after the line: the keyword tests, then, when they left the
\* sub-mode as it was, the numeric marker of the raw line
detectedSubMode(f) ==
    LET rawLine == f.rawLines[f.i + 1]
        keyword == KeywordSubMode(ToLowerCase(cleanLine(rawLine)))
        explicit == IF keyword # Undefined THEN keyword ELSE f.dictationSubMode
    IN  IF explicit = f.dictationSubMode /\ NumericSubMode(rawLine) # Undefined
        THEN NumericSubMode(rawLine) ELSE explicit

\* the dictation list a sub-mode fills
ListOf ==
    [sounds |-> "sounds", real |-> "realWords", elements |-> "wordElements",
     nonsense |-> "nonsenseWords", phrases |-> "phrases", sentences |-> "sentences"]

\* a dictation line whose items replace the sounds instead of joining them
DictationAfterReplacing(f) ==
    [f.extracted.dictation EXCEPT !.sounds = extractList(cleanLine(f.rawLines[f.i + 1]))]

\* the dictation lists after a line of the dictation section
DictationAfter(f) ==
    LET line == cleanLine(f.rawLines[f.i + 1])
        subMode == detectedSubMode(f)
        contentToProcess == IF Includes(line, ":") THEN AfterColon(line)
                            ELSE StripLeadingNumber(line)
        items == extractList(contentToProcess)
        cleanSentence == StripLeadingNumber(Trim(contentToProcess))
        dictation == f.extracted.dictation
    IN  IF Trim(contentToProcess) = "" \/ subMode = "none" THEN dictation
        ELSE IF subMode = "sentences"
             THEN IF Len(cleanSentence) > 5
                       /\ ~Includes(ToLowerCase(cleanSentence), "sentences")
                  THEN [dictation EXCEPT !.sentences = Append(@, cleanSentence)]
                  ELSE dictation
        ELSE [dictation EXCEPT ![ListOf[subMode]] = @ \o items]

\* a quickDrill content test that looks at the colon only
quickDrillContentByColon(line) == ~Includes(line, ":")

\* if (!line.includes(':') && !line.toLowerCase().includes('part')): the
\* lines of the quickDrill section that are taken as content
quickDrillContent(line) ==
    ~Includes(line, ":") /\ ~Includes(ToLowerCase(line), "part")

\* the frame after the loop body ran on raw line i taking the branch
AfterLine(branch, f) ==
    LET line == cleanLine(f.rawLines[f.i + 1])
        lower == ToLowerCase(line)
        next == [f EXCEPT !.i = @ + 1]
    IN  CASE branch = "quickDrillHeader" ->
                 [next EXCEPT !.currentSection = "quickDrill",
                              !.extracted.quickDrill = @ \o HeaderItems(line)]
          [] branch = "wordCardsHeader" ->
                 [next EXCEPT !.currentSection = "wordCards",
                              !.extracted.wordCards =
                                  @ \o Cards(HeaderItems(line))]
          [] branch = "hfwHeader" ->
                 [next EXCEPT !.currentSection = "hfw",
                              !.extracted.hfwList = @ \o HeaderItems(line)]
          [] branch = "sentencesHeader" -> [next EXCEPT !.currentSection = "sentences"]
          [] branch = "dictationHeader" ->
                 [next EXCEPT !.currentSection = "dictation",
                              !.dictationSubMode = "none"]
          [] branch = "passageHeader" -> [next EXCEPT !.currentSection = "passage"]
          [] branch = "quickDrill" ->
                 IF quickDrillContent(line)
                 THEN [next EXCEPT !.extracted.quickDrill = @ \o extractList(line)]
                 ELSE next
          [] branch = "hfw" ->
                 IF ~Includes(line, ":")
                 THEN [next EXCEPT !.extracted.hfwList = @ \o extractList(line)]
                 ELSE next
          [] branch = "wordCards" ->
                 IF ~Includes(line, ":")
                 THEN [next EXCEPT !.extracted.wordCards =
                                       @ \o Cards(extractList(line))]
                 ELSE next
          [] branch = "sentences" ->
                 IF Len(line) > 5 /\ Includes(line, " ") /\ ~Includes(lower, "part 6")
                 THEN [next EXCEPT !.extracted.sentences = Append(@, line)]
                 ELSE next
          [] branch = "passage" ->
                 [next EXCEPT !.extracted.passage =
                                  (IF Truthy(@) THEN @ ELSE "") \o line \o "\n\n"]
          [] branch = "dictation" ->
                 [next EXCEPT !.dictationSubMode = detectedSubMode(f),
                              !.extracted.dictation = DictationAfter(f)]
          [] OTHER -> next

\* one iteration of for (let i = 0; i < rawLines.length; i++) taking the branch
InLineLoop(branch) ==
    /\ stack # <<>>
    /\ Top.pc = "lines"
    /\ Top.i < Len(Top.rawLines)
    /\ LineBranch(Top) = branch

QuickDrillHeader ==
    /\ InLineLoop("quickDrillHeader")
    /\ Step(AfterLine("quickDrillHeader", Top))

WordCardsHeader ==
    /\ InLineLoop("wordCardsHeader")
    /\ Step(AfterLine("wordCardsHeader", Top))

HfwHeader ==
    /\ InLineLoop("hfwHeader")
    /\ Step(AfterLine("hfwHeader", Top))

SentencesHeader ==
    /\ InLineLoop("sentencesHeader")
    /\ Step(AfterLine("sentencesHeader", Top))

DictationHeader ==
    /\ InLineLoop("dictationHeader")
    /\ Step(AfterLine("dictationHeader", Top))

PassageHeader ==
    /\ InLineLoop("passageHeader")
    /\ Step(AfterLine("passageHeader", Top))

QuickDrillLine ==
    /\ InLineLoop("quickDrill")
    /\ Step(AfterLine("quickDrill", Top))

HfwLine ==
    /\ InLineLoop("hfw")
    /\ Step(AfterLine("hfw", Top))

WordCardsLine ==
    /\ InLineLoop("wordCards")
    /\ Step(AfterLine("wordCards", Top))

SentencesLine ==
    /\ InLineLoop("sentences")
    /\ Step(AfterLine("sentences", Top))

PassageLine ==
    /\ InLineLoop("passage")
    /\ Step(AfterLine("passage", Top))

DictationLine ==
    /\ InLineLoop("dictation")
    /\ Step(AfterLine("dictation", Top))

\* a line before any section header: nothing is taken from it
UnsectionedLine ==
    /\ InLineLoop("none")
    /\ Step(AfterLine("none", Top))

\* the loop over the raw lines ends: return extracted
ReturnExtracted ==
    /\ stack # <<>>
    /\ Top.pc = "lines"
    /\ Top.i >= Len(Top.rawLines)
    /\ Step([Top EXCEPT !.pc = "return"])

(***************************************************************************)
(* The documents the importer is checked on: every document of at most     *)
(* MaxLines lines of LinePool, with and without a final newline, and the   *)
(* documents the specification names.                                      *)
(***************************************************************************)
LinePool ==
    {"Step,Dictation,Lesson Plan",
     "3.1,\",,lesson plan,dictation\",3.1 x",
     "2.1,Sounds: a",
     "Quick Drill: a, b",
     "cat, dog",
     "1. a, th",
     "The dog ran far.",
     "Dictation"}

RECURSIVE JoinLines(_)
JoinLines(ls) ==
    IF Len(ls) = 1 THEN ls[1] ELSE ls[1] \o "\n" \o JoinLines(Tail(ls))

PoolDocuments ==
    {JoinLines(ls) : ls \in UNION {[1..n -> LinePool] : n \in 1..MaxLines}}

FreeformExample ==
    "Quick Drill: a, b, sh\nWord Cards:\ncat, dog\nSentences for Reading\nThe dog ran far."

CSVExample ==
    "Lesson Plan,New Sight Words,Sentences\n"
        \o "\"3.1\",\"full,pull\",\"The cat sat. More text here.\""

DictationExample == "Dictation\n1. a, th\n2. cat, dog\n6. The sun is hot today."

\* a CSV document whose data row has the dictation cell 'Sounds: a, th'
CellExample == "Step,Dictation\n3.1,\"Sounds: a, th\"\n"

NamedDocuments ==
    {"", FreeformExample, CSVExample, CSVExample \o "\n", DictationExample,
     "Quick Drill\na; b; sh\nWord Cards:\ncat, dog\nSentences for Reading\nThe dog ran far.",
     "Step 2.3\nSight Words: the, was\nsaid\nStory\nOnce upon a time.\nPart 3\nmap  mop",
     "Part 8: Dictation\nSounds: a, th\n2) cat\nNonsense words: zib, vop\n"
         \o "3. ing\n5. on the mat\nSentences:\nThe cat sat.",
     "Dictation\n3) ing\n4. zib, vop\n5. on the mat",
     "\n,,Lesson Plan,Sight Words\n,,3.1,the",
     "  ,,3.1,the",
     CellExample,
     "Sentences for Reading: The dog ran far.\nDictation: a, th\nStory: Once upon a time.",
     "Quick Drill: a: b\nWord Cards: cat: dog\nHFW: the: was",
     "Quick Drill\napart, b\nc: d\nhfw\npart, the\nx: y",
     "Dictation\n1. Sounds: a\n2. Sounds: th",
     "Dictation\n1. a, th\ncat, dog\nDictation\nmap",
     "HFW: the, , was;\nsaid, Word count 2,\ta\tb",
     "Review 2.1\nStep 3.4\nQuick Drill: a",
     "Story\nOnce upon a time.\nA short story told.\nThe end.",
     "Part 5\nThe dog ran far.\nRead the Passage to me.\nThe cat sat.",
     ",,Lesson Plan,Sight Words,Reader\n,,\n,,3.1 A,\"the, was\",Once there was a cat.",
     "Id,PA Drill,New Vocab Words,Reading Sentences,Dictation\n"
         \o "3.1,\"a, th\",cat,The cat sat on it.,Sounds: a\n"}

Documents == PoolDocuments \cup NamedDocuments

\* the targets a caller passes: none, or step 3 substep 1
Targets == {<<Undefined, Undefined>>, <<"3", "1">>}

ImporterInit ==
    /\ \E text \in Documents, target \in Targets :
           stack = <<NewFrame(text, target[1], target[2])>>
    /\ word = ""
    /\ remaining = ""
    /\ tiles = <<>>
    /\ pc = "idle"
    /\ saves = {}
    /\ now = 0
    /\ status = 0
    /\ request = NoRequest

ImporterNext ==
    \/ DetectCSV
    \/ DetectFreeform
    \/ SkipShortRow
    \/ SkipOtherRow
    \/ SelectRow
    \/ RowThrows
    \/ RowsExhausted
    \/ ExtractRow
    \/ ExtractRowAndRecurse
    \/ DictationReturns
    \/ DetectStep
    \/ QuickDrillHeader
    \/ WordCardsHeader
    \/ HfwHeader
    \/ SentencesHeader
    \/ DictationHeader
    \/ PassageHeader
    \/ QuickDrillLine
    \/ HfwLine
    \/ WordCardsLine
    \/ SentencesLine
    \/ PassageLine
    \/ DictationLine
    \/ UnsectionedLine
    \/ ReturnExtracted

ImporterSpec == ImporterInit /\ [][ImporterNext]_vars

(***************************************************************************)
(* The save store of src/server/index.js.  A save file is the record of    *)
(* its id and its updatedAt; each handler runs to completion (its file     *)
(* operations are synchronous) and the file operations succeed.  The clock *)
(* advances between two requests that read it.                             *)
(***************************************************************************)
MAX_SAVES == 100

\* the requests of one run
MaxRequests == 3

Save(id, updatedAt) == [id |-> id, updatedAt |-> updatedAt]

\* the k saves updated first
Oldest(all, k) ==
    {s \in all : Cardinality({t \in all : t.updatedAt < s.updatedAt}) < k}

\* getAllSaves().slice(0, k): the k saves updated last
Newest(all, k) ==
    {s \in all : Cardinality({t \in all : t.updatedAt > s.updatedAt}) < k}

\* a limit enforced only once it is exceeded
enforceMaxSavesWhenExceeded(all) ==
    IF Cardinality(all) > MAX_SAVES THEN Newest(all, MAX_SAVES) ELSE all

\* the files left by enforceMaxSaves(): saves.slice(MAX_SAVES - 1) is deleted
enforceMaxSaves(all) ==
    IF Cardinality(all) >= MAX_SAVES THEN Newest(all, MAX_SAVES - 1) ELSE all

\* fs.existsSync(filePath) for the file of id
Exists(id) == \E s \in saves : s.id = id

\* the ids the requests name: the oldest and the newest of a full store, and
\* one no save has
RequestIds == {1, MAX_SAVES, 0}

\* a request is handled
Handled == now < MAX_SAVES + MaxRequests

\* POST /api/saves with a name and data
CreateSave ==
    /\ Handled
    /\ request' = Request("POST", NoId, TRUE)
    /\ saves' = enforceMaxSaves(saves) \cup {Save(now + 1, now + 1)}
    /\ now' = now + 1
    /\ status' = 200
    /\ UNCHANGED <<word, remaining, tiles, pc, stack>>

\* a POST that enforces the limit before it looks at name and data
CreateSaveRejectedAfterEviction ==
    /\ Handled
    /\ request' = Request("POST", NoId, FALSE)
    /\ saves' = enforceMaxSaves(saves)
    /\ status' = 400
    /\ now' = now + 1
    /\ UNCHANGED <<word, remaining, tiles, pc, stack>>

\* POST /api/saves without a name or without data
CreateSaveRejected ==
    /\ Handled
    /\ request' = Request("POST", NoId, FALSE)
    /\ status' = 400
    /\ now' = now + 1
    /\ UNCHANGED <<word, remaining, tiles, pc, stack, saves>>

\* GET /api/saves/:id
GetSave ==
    /\ Handled
    /\ \E id \in RequestIds :
           /\ Exists(id)
           /\ request' = Request("GET", id, TRUE)
    /\ status' = 200
    /\ now' = now + 1
    /\ UNCHANGED <<word, remaining, tiles, pc, stack, saves>>

\* PUT /api/saves/:id
UpdateSave ==
    /\ Handled
    /\ \E id \in RequestIds :
           /\ Exists(id)
           /\ request' = Request("PUT", id, TRUE)
           /\ saves' = {IF s.id = id THEN Save(id, now + 1) ELSE s : s \in saves}
    /\ now' = now + 1
    /\ status' = 200
    /\ UNCHANGED <<word, remaining, tiles, pc, stack>>

\* GET, PUT or DELETE /api/saves/:id for an id no file has
SaveNotFound ==
    /\ Handled
    /\ \E method \in {"GET", "PUT", "DELETE"}, id \in RequestIds :
           /\ ~Exists(id)
           /\ request' = Request(method, id, TRUE)
    /\ status' = 404
    /\ now' = now + 1
    /\ UNCHANGED <<word, remaining, tiles, pc, stack, saves>>

\* DELETE /api/saves/:id
DeleteSave ==
    /\ Handled
    /\ \E id \in RequestIds :
           /\ Exists(id)
           /\ request' = Request("DELETE", id, TRUE)
           /\ saves' = {s \in saves : s.id # id}
    /\ now' = now + 1
    /\ status' = 200
    /\ UNCHANGED <<word, remaining, tiles, pc, stack>>

\* the store the server starts on: at most MAX_SAVES saves, each updated at
\* its own time in the past
ServerInit ==
    /\ \E n \in 0..MAX_SAVES : saves = {Save(k, k) : k \in 1..n}
    /\ now = MAX_SAVES
    /\ status = 0
    /\ request = NoRequest
    /\ word = ""
    /\ remaining = ""
    /\ tiles = <<>>
    /\ pc = "idle"
    /\ stack = <<>>

ServerNext ==
    \/ CreateSave
    \/ CreateSaveRejected
    \/ GetSave
    \/ UpdateSave
    \/ SaveNotFound
    \/ DeleteSave

ServerSpec == ServerInit /\ [][ServerNext]_vars

(***************************************************************************)
(* Claims about parseWordToTiles                                           *)
(***************************************************************************)
Last(seq) == seq[Len(seq)]

\* C2: parseWordToTiles is total: the scan loop terminates (every iteration
\* removes at least one character of the remaining input, so the tiles pushed
\* and the characters left never exceed Len(word)), the loop ends only when
\* the remaining input is empty, and the empty string yields no tile.
C2_TokenizerTotal ==
    /\ [][pc = "loop" /\ pc' = "loop" => Len(remaining') < Len(remaining)]_vars
    /\ [](Len(tiles) + Len(remaining) <= Len(word))
    /\ [](pc = "done" => remaining = "")
    /\ [](pc = "done" /\ word = "" => tiles = <<>>)

C2_Witness == pc = "done" /\ word = "the cat" /\ Len(tiles) = 6

\* the characters of the round trip: letters, spaces and the override delimiters
OverrideDelimiters == {"|", "<", ">", "[", "]", "{", "}", "/"}

RECURSIVE OnlyChars(_, _)
OnlyChars(class, s) ==
    s = "" \/ (CharAt(s, 0) \in class /\ OnlyChars(class, Slice(s, 1)))

RoundTripString(s) ==
    OnlyChars(UpperLetters \cup LowerLetters \cup {" "} \cup OverrideDelimiters, s)

RECURSIVE StripDelimiters(_)
StripDelimiters(s) ==
    IF s = "" THEN ""
    ELSE (IF CharAt(s, 0) \in OverrideDelimiters THEN "" ELSE CharAt(s, 0))
             \o StripDelimiters(Slice(s, 1))

\* the tile texts in order, a space tile contributing one space
RECURSIVE TileTexts(_)
TileTexts(ts) ==
    IF ts = <<>> THEN ""
    ELSE (IF Head(ts).type = "space" THEN " " ELSE Head(ts).text) \o TileTexts(Tail(ts))

\* C4 as stated: for every string of letters, spaces and override delimiters,
\* the concatenated tile texts are the string with its delimiters removed.
C4_RoundTripAsStated ==
    pc = "done" /\ RoundTripString(word) => TileTexts(tiles) = StripDelimiters(word)

\* C4 as amended: the concatenated tile texts, with the delimiters they kept
\* removed, are the string with its delimiters removed; an unterminated opener,
\* a stray closer or a delimiter inside an override's interior stays tile text.
C4_RoundTripModuloDelimiters ==
    pc = "done" /\ RoundTripString(word)
        => StripDelimiters(TileTexts(tiles)) = StripDelimiters(word)

C4_Witness ==
    /\ pc = "done"
    /\ word = "An{"
    /\ TileTexts(tiles) = "An{"

\* open + x + closing, where x does not contain closing
Wrapped(w, open, closing) ==
    /\ Len(w) >= 2
    /\ StartsWith(w, open)
    /\ CharAt(w, Len(w) - 1) = closing
    /\ ~Includes(Substring(w, 1, Len(w) - 1), closing)

Interior(w) == Substring(w, 1, Len(w) - 1)

\* C5: '{'+x+'}' is exactly one consonant tile with text x, '['+x+']' exactly
\* one vowel tile with text x and, for non-empty x, '/'+x+'/' exactly one
\* welded tile with text x, whatever x would auto-classify as.
C5_OverridePrecedence ==
    pc = "done" =>
        /\ Wrapped(word, "{", "}") => tiles = <<Tile(Interior(word), "consonant")>>
        /\ Wrapped(word, "[", "]") => tiles = <<Tile(Interior(word), "vowel")>>
        /\ Wrapped(word, "/", "/") /\ Len(word) > 2
               => tiles = <<Tile(Interior(word), "welded")>>

C5_Witness == pc = "done" /\ word = "{a}" /\ tiles = <<Tile("a", "consonant")>>

\* no space, syllable, affix, suffix, prefix or override rule matches at rem
NoOverrideRule(rem) ==
    /\ ~StartsWith(rem, " ")
    /\ syllableMatch(rem) = -1
    /\ OverrideClose(rem, "<", ">", 0) = -1
    /\ suffixMatch(rem) = 0
    /\ prefixMatch(rem) = 0
    /\ OverrideClose(rem, "[", "]", 0) = -1
    /\ OverrideClose(rem, "{", "}", 0) = -1
    /\ OverrideClose(rem, "/", "/", 1) = -1

HasEntry(table, current) == \E k \in 1..Len(table) : StartsWith(current, table[k])

\* the kind the cascade welded, vowel team, r-controlled, digraph gives
CascadeKind(current) ==
    IF HasEntry(weldedSounds, current) THEN "welded"
    ELSE IF HasEntry(vowelTeams, current) THEN "vowelTeam"
    ELSE IF HasEntry(rControlled, current) THEN "rControl"
    ELSE IF HasEntry(digraphs, current) THEN "digraph"
    ELSE "none"

\* C6: where no override, space or affix rule matches, the tile's kind is that
\* of the first of the tables welded, vowel team, r-controlled, digraph with an
\* entry prefixing the lower-cased input; with no such table one character is
\* consumed, a vowel tile for a,e,i,o,u,y in either case (case kept), else a
\* consonant tile.  'ing' is one welded tile, 'ear' is 'ea' + 'r', 'x' one
\* consonant tile.
C6_AutoCascade ==
    /\ [][pc = "loop" /\ remaining # "" /\ NoOverrideRule(remaining) =>
             LET kind == CascadeKind(ToLowerCase(remaining))
                 tile == Last(tiles')
                 char == CharAt(remaining, 0)
             IN  /\ tile.text \o remaining' = remaining
                 /\ kind # "none" => tile.type = kind /\ Len(tile.text) >= 2
                 /\ kind = "none" =>
                        /\ tile.text = char
                        /\ tile.type =
                              IF char \in {"a", "e", "i", "o", "u", "y",
                                           "A", "E", "I", "O", "U", "Y"}
                              THEN "vowel" ELSE "consonant"]_vars
    /\ [](pc = "done" /\ word = "ing" => tiles = <<Tile("ing", "welded")>>)
    /\ [](pc = "done" /\ word = "ear"
             => tiles = <<Tile("ea", "vowelTeam"), Tile("r", "consonant")>>)
    /\ [](pc = "done" /\ word = "x" => tiles = <<Tile("x", "consonant")>>)

C6_Witness ==
    /\ pc = "done"
    /\ word = "ear"
    /\ tiles = <<Tile("ea", "vowelTeam"), Tile("r", "consonant")>>

\* C7: for every non-empty alphanumeric w, '-'+w is exactly one suffix tile
\* with text '-'+w and w+'-' exactly one prefix tile with text w+'-'.
C7_HyphenShorthand ==
    pc = "done" =>
        /\ StartsWith(word, "-") /\ Len(word) > 1 /\ OnlyChars(Alnum, Slice(word, 1))
               => tiles = <<Tile(word, "suffix")>>
        /\ CharAt(word, Len(word) - 1) = "-" /\ Len(word) > 1
                 /\ OnlyChars(Alnum, Substring(word, 0, Len(word) - 1))
               => tiles = <<Tile(word, "prefix")>>

C7_Witness ==
    /\ pc = "done"
    /\ word = "A1-"
    /\ tiles = <<Tile("A1-", "prefix")>>

\* the loop runs one iteration
Iterates == pc = "loop" /\ pc' = "loop"

\* the position in rem of the first closing after the first character, or -1
CloserAfterOpener(rem, closing) ==
    IF IndexOf(Slice(rem, 1), closing, 0) = -1 THEN -1
    ELSE 1 + IndexOf(Slice(rem, 1), closing, 0)

\* C14 as stated: parseWordToTiles never emits a welded tile with empty text.
C14_NoEmptyWeldedTile ==
    \A k \in 1..Len(tiles) : tiles[k].type = "welded" => tiles[k].text # ""

\* C14 as amended: the closing slash of a welded override is looked for from
\* the character after the opening slash, so the opener is never its own
\* closer: a lone '/' with no later '/' is a consonant tile, otherwise the
\* tile is the welded tile of the text between the two slashes, which is
\* empty for '//'; a welded tile with empty text comes from '//' only.
C14_WeldedOverrideFromIndexOne ==
    /\ [][Iterates /\ StartsWith(remaining, "/") =>
             LET close == CloserAfterOpener(remaining, "/")
             IN  IF close = -1
                 THEN /\ tiles' = Append(tiles, Tile("/", "consonant"))
                      /\ remaining' = Slice(remaining, 1)
                 ELSE /\ tiles' = Append(tiles,
                                         Tile(Substring(remaining, 1, close), "welded"))
                      /\ remaining' = Slice(remaining, close + 1)]_vars
    /\ [][Iterates /\ Last(tiles') = Tile("", "welded")
             => StartsWith(remaining, "//")]_vars
    /\ [](pc = "done" /\ word = "//" => tiles = <<Tile("", "welded")>>)

C14_Witness ==
    /\ pc = "done"
    /\ word = "//"
    /\ tiles = <<Tile("", "welded")>>

\* the closing delimiter of each override opener
CloserOf(opener) ==
    CASE opener = "|" -> "|"
      [] opener = "<" -> ">"
      [] opener = "[" -> "]"
      [] opener = "{" -> "}"
      [] opener = "/" -> "/"

\* C15: when the remaining input starts with an override opener (|, <, [, {,
\* /) that has no closing delimiter later in the input, the iteration emits
\* the opener alone as a consonant tile and goes on from the next character;
\* '{cat' gives consonant '{', consonant 'c', vowel 'a', consonant 't'.
C15_UnterminatedOverride ==
    /\ [][\A opener \in {"|", "<", "[", "{", "/"} :
             Iterates /\ StartsWith(remaining, opener)
                 /\ CloserAfterOpener(remaining, CloserOf(opener)) = -1
             => /\ tiles' = Append(tiles, Tile(opener, "consonant"))
                /\ remaining' = Slice(remaining, 1)]_vars
    /\ [](pc = "done" /\ word = "{cat"
             => tiles = <<Tile("{", "consonant"), Tile("c", "consonant"),
                          Tile("a", "vowel"), Tile("t", "consonant")>>)

C15_Witness ==
    /\ pc = "done"
    /\ word = "{cat"
    /\ tiles = <<Tile("{", "consonant"), Tile("c", "consonant"),
                 Tile("a", "vowel"), Tile("t", "consonant")>>

\* C16: for every entry e of the welded, vowel-team, r-controlled and digraph
\* tables, parseWordToTiles(e) is exactly one tile with text e and the kind of
\* e's table.
C16_EveryEntryIsOneTile ==
    pc = "done" =>
        /\ word \in Range(weldedSounds) => tiles = <<Tile(word, "welded")>>
        /\ word \in Range(vowelTeams) => tiles = <<Tile(word, "vowelTeam")>>
        /\ word \in Range(rControlled) => tiles = <<Tile(word, "rControl")>>
        /\ word \in Range(digraphs) => tiles = <<Tile(word, "digraph")>>

(***************************************************************************)
(* Claims about parseLessonText                                            *)
(***************************************************************************)
\* the outermost call on text with the targets has returned
Returned(text, targetStep, targetSubstep) ==
    /\ Len(stack) = 1
    /\ stack[1].pc = "return"
    /\ stack[1].text = text
    /\ stack[1].targetStep = targetStep
    /\ stack[1].targetSubstep = targetSubstep

\* C1: parseLessonText never throws: whatever the text and the targets, no
\* call ends in an exception, also when a data row of CSV-shaped input is
\* shorter than the header row.
C1_NeverThrows == \A k \in 1..Len(stack) : stack[k].pc # "threw"

\* the steps a call in its phase can still take, at most: the measure that
\* every step of a call decreases
PhaseRank(f) ==
    LET N == Len(f.text) + 1
    IN  CASE f.pc = "detect" -> 2 * N + 6
          [] f.pc = "rows" -> N + 5 + (Len(f.lines) - f.i)
          [] f.pc = "extract" -> N + 4
          [] f.pc = "call" -> N + 3
          [] f.pc = "text" -> N + 2
          [] f.pc = "lines" -> 1 + (Len(f.rawLines) - f.i)
          [] OTHER -> 0

\* the measure of the whole stack: the outer call's phase counts for more
\* than anything the call on its dictation cell can do
Rank ==
    IF stack = <<>> THEN 0
    ELSE PhaseRank(stack[1]) * (2 * Len(stack[1].text) + 9)
             + (IF Len(stack) >= 2 THEN PhaseRank(stack[2]) ELSE 0)

\* C3: parseLessonText terminates and its self-invocation nests at most one
\* level deep: the stack never holds more than two calls, the inner call is
\* on the outer call's dictation cell, which holds no newline, with no target
\* step or substep, the inner call never selects a data row (so it neither
\* recurses nor throws),
\* and every step strictly decreases a natural-number measure.
C3_RecursionDepthOne ==
    /\ [](Len(stack) <= 2)
    /\ [](Len(stack) = 2 =>
             /\ stack[1].pc = "call"
             /\ stack[2].text = dictationText(stack[1])
             /\ ~Includes(stack[2].text, "\n")
             /\ stack[2].targetStep = Undefined
             /\ stack[2].targetSubstep = Undefined
             /\ stack[2].pc \notin {"extract", "call", "threw"})
    /\ [](Rank >= 0)
    /\ [][Rank' < Rank]_vars

\* the call on a dictation cell that begins with ",," and is full of commas
\* has returned
C3_Witness ==
    /\ Len(stack) = 2
    /\ StartsWith(stack[2].text, ",,")
    /\ stack[2].lines = <<stack[2].text>>
    /\ stack[2].pc = "return"

\* C8: on the five-line freeform text, with no targets, the record returned
\* has quickDrill = ['a','b','sh'], the word cards 'cat' and 'dog' of kind
\* regular, and sentences = ['The dog ran far.'].
C8_FreeformSectioning ==
    Returned(FreeformExample, Undefined, Undefined) =>
        /\ stack[1].extracted.quickDrill = <<"a", "b", "sh">>
        /\ stack[1].extracted.wordCards = <<RegularCard("cat"), RegularCard("dog")>>
        /\ stack[1].extracted.sentences = <<"The dog ran far.">>

\* C9: on the two-row CSV document (header line and one data line), with the
\* targets '3' and '1', the record returned has hfwList = ['full','pull'] and
\* sentences containing the data row's sentence text.
C9_CSVRoundTrip ==
    Returned(CSVExample, "3", "1") =>
        /\ stack[1].extracted.hfwList = <<"full", "pull">>
        /\ \E k \in 1..Len(stack[1].extracted.sentences) :
               stack[1].extracted.sentences[k] = "The cat sat. More text here."

\* the dictation list the marker n. or n) stands for
ListOfMarker(n) ==
    CASE n = "1" -> "sounds"
      [] n = "2" -> "realWords"
      [] n = "3" -> "wordElements"
      [] n = "4" -> "nonsenseWords"
      [] n = "5" -> "phrases"
      [] n = "6" -> "sentences"

\* the loop is at a line of the dictation section that carries no
\* sub-section keyword and starts with a marker 1./1) to 6./6)
AtNumberedDictationLine ==
    /\ stack # <<>>
    /\ Top.pc = "lines"
    /\ Top.i < Len(Top.rawLines)
    /\ LineBranch(Top) = "dictation"
    /\ KeywordSubMode(ToLowerCase(cleanLine(Top.rawLines[Top.i + 1]))) = Undefined
    /\ CharAt(Top.rawLines[Top.i + 1], 0) \in {"1", "2", "3", "4", "5", "6"}
    /\ CharAt(Top.rawLines[Top.i + 1], 1) \in {".", ")"}

\* C10: in the dictation section a line with no sub-section keyword that
\* starts with the marker n. or n) is routed to the list of n (1 sounds,
\* 2 realWords, 3 wordElements, 4 nonsenseWords, 5 phrases, 6 sentences): the
\* line's content is added to that list, after the marker is removed, and no
\* other list changes; the block '1. a, th' / '2. cat, dog' /
\* '6. The sun is hot today.' gives sounds = ['a','th'],
\* realWords = ['cat','dog'], sentences = ['The sun is hot today.'].
C10_NumericFallback ==
    /\ [][AtNumberedDictationLine =>
             LET list == ListOfMarker(CharAt(Top.rawLines[Top.i + 1], 0))
                 content == StripLeadingNumber(cleanLine(Top.rawLines[Top.i + 1]))
                 old == Top.extracted.dictation
                 new == Top'.extracted.dictation
             IN  /\ \A l \in DOMAIN old \ {list} : new[l] = old[l]
                 /\ ~Includes(content, ":") /\ list # "sentences"
                        => new[list] = old[list] \o extractList(content)
                 /\ ~Includes(content, ":") /\ list = "sentences" /\ Len(content) > 5
                            /\ ~Includes(ToLowerCase(content), "sentences")
                        => new[list] = Append(old[list], content)]_vars
    /\ [](\A target \in Targets : Returned(DictationExample, target[1], target[2])
             => /\ stack[1].extracted.dictation.sounds = <<"a", "th">>
                /\ stack[1].extracted.dictation.realWords = <<"cat", "dog">>
                /\ stack[1].extracted.dictation.sentences = <<"The sun is hot today.">>)

C10_Witness ==
    /\ Returned(DictationExample, Undefined, Undefined)
    /\ stack[1].extracted.dictation.sounds = <<"a", "th">>
    /\ stack[1].extracted.dictation.sentences = <<"The sun is hot today.">>

\* the lists of strings of a record: quickDrill, hfwList, sentences and the
\* six dictation lists
StringLists(extracted) ==
    {extracted.quickDrill, extracted.hfwList, extracted.sentences}
        \cup {extracted.dictation[l] : l \in DOMAIN extracted.dictation}

\* C11: on both paths the record returned by parseLessonText has quickDrill,
\* hfwList, wordCards, sentences and the six dictation lists present as
\* lists, never absent; for the empty string all of them are empty.
C11_ListsPresent ==
    \A k \in 1..Len(stack) :
        stack[k].pc = "return" =>
            /\ \A list \in StringLists(stack[k].extracted) : list # AbsentList
            /\ DOMAIN stack[k].extracted.wordCards
                   = 1..Len(stack[k].extracted.wordCards)
            /\ DOMAIN stack[k].extracted.dictation
                   = {"sounds", "realWords", "wordElements", "nonsenseWords",
                      "phrases", "sentences"}
            /\ stack[k].text = ""
                   => /\ StringLists(stack[k].extracted) = {<<>>}
                      /\ stack[k].extracted.wordCards = <<>>

\* a record returned on the CSV path from a row whose sight-word and drill
\* columns are missing
C11_Witness ==
    /\ Returned(FreeformExample, Undefined, Undefined)
    /\ stack[1].dataRow = <<"cat", "dog">>
    /\ stack[1].extracted.hfwList = <<>>
    /\ stack[1].extracted.quickDrill = <<>>

\* the running call is at its entry, about to choose its path
AtDetection == stack # <<>> /\ Top.pc = "detect"

\* the text before the first newline of text
FirstLineOf(text) ==
    IF IndexOf(text, "\n", 0) = -1 THEN text
    ELSE Substring(text, 0, IndexOf(text, "\n", 0))

\* text.split('\n').length
LineCount(text) == 1 + Cardinality({i \in 0..(Len(text) - 1) : CharAt(text, i) = "\n"})

\* the first line of text that is not empty once trimmed, or "" when all are
RECURSIVE FirstNonEmptyLineOf(_)
FirstNonEmptyLineOf(text) ==
    IF Trim(FirstLineOf(text)) # "" \/ IndexOf(text, "\n", 0) = -1
    THEN Trim(FirstLineOf(text))
    ELSE FirstNonEmptyLineOf(Slice(text, IndexOf(text, "\n", 0) + 1))

\* C12 as stated: the CSV path is taken exactly when the first non-empty
\* line of the text starts with ',,' or the first line contains a comma and
\* the document has more than 2 lines.
C12_DetectionByFirstNonEmptyLine ==
    [][AtDetection =>
          (Top'.pc = "rows" <=>
              \/ StartsWith(FirstNonEmptyLineOf(Top.text), ",,")
              \/ /\ Includes(FirstLineOf(Top.text), ",")
                 /\ LineCount(Top.text) > 2)]_vars

\* C12 as amended: the CSV path is taken exactly when the first line of the
\* text (the text before the first newline, trimmed) starts with ',,', or it
\* contains a comma and splitting the text at newlines gives more than 2
\* pieces; every other input goes to the freeform path.
C12_DetectionByFirstLine ==
    [][AtDetection =>
          /\ Top'.pc \in {"rows", "text"}
          /\ Top'.pc = "rows" <=>
                \/ StartsWith(Trim(FirstLineOf(Top.text)), ",,")
                \/ /\ Includes(FirstLineOf(Top.text), ",")
                   /\ LineCount(Top.text) > 2]_vars

\* a text whose first line is empty and whose second line starts with ',,'
\* was sent to the freeform path
C12_Witness ==
    /\ Len(stack) = 1
    /\ stack[1].text = "\n,,Lesson Plan,Sight Words\n,,3.1,the"
    /\ stack[1].pc = "text"

\* the call took the CSV path: its header row has been read
OnCSVPath(f) == f.headers # <<>>

\* row k of the lines of f is a row the criterion of C17 accepts
Qualifies(f, k) ==
    LET row == parseCSVLine(f.lines[k + 1])
        column == indices(f, "lesson plan")
        cell == IF column # -1 /\ column < Len(row) THEN row[column + 1] ELSE ""
    IN  /\ Len(row) >= 2
        /\ IF f.targetStep # Undefined /\ f.targetSubstep # Undefined
           THEN \/ row[1] = f.targetStep \o "." \o f.targetSubstep
                \/ StartsWith(cell, f.targetStep \o "." \o f.targetSubstep)
           ELSE row[1] # "" \/ cell # ""

\* the first row after the header that qualifies, or -1
FirstQualifying(f) ==
    LET hits == {k \in 1..(Len(f.lines) - 1) : Qualifies(f, k)}
    IN  IF hits = {} THEN -1 ELSE CHOOSE k \in hits : \A j \in hits : k <= j

\* C17: on the CSV path the data row used is the first row after the header,
\* among the rows of at least 2 columns, whose first column equals
\* 'step.substep' or whose 'lesson plan' column starts with it (with no
\* target: whose first column or 'lesson plan' column is non-empty); the
\* search stops at that row, and no row is used only when none qualifies.
C17_FirstQualifyingRow ==
    \A k \in 1..Len(stack) :
        LET f == stack[k]
        IN  OnCSVPath(f) /\ f.pc # "rows" =>
                IF FirstQualifying(f) = -1
                THEN f.dataRow = <<>>
                ELSE /\ f.pc \in {"extract", "call", "return"}
                     /\ f.i = FirstQualifying(f)
                     /\ f.dataRow = parseCSVLine(f.lines[FirstQualifying(f) + 1])

\* C18: when the selected CSV row has the cell 'Sounds: a, th' under the
\* 'dictation' header, the items listed after the keyword are in the
\* dictation list of that sub-section: dictation.sounds = ['a', 'th'].
C18_DictationCellItems ==
    \A k \in 1..Len(stack) :
        LET f == stack[k]
        IN  /\ OnCSVPath(f)
            /\ f.pc = "return"
            /\ f.dataRow # <<>>
            /\ getCol(f, <<"dictation">>) = "Sounds: a, th"
            => f.extracted.dictation.sounds = <<"a", "th">>

\* the branches of the line loop that enter a section
ListHeaders == {"quickDrillHeader", "wordCardsHeader", "hfwHeader"}
PlainHeaders == {"sentencesHeader", "dictationHeader", "passageHeader"}

\* the line loop of the running call is at a line that enters a section
AtHeaderLine ==
    /\ stack # <<>>
    /\ Top.pc = "lines"
    /\ Top.i < Len(Top.rawLines)
    /\ LineBranch(Top) \in ListHeaders \cup PlainHeaders

\* the text of line after its first colon
TextAfterFirstColon(line) ==
    Substring(line, IndexOf(line, ":", 0) + 1, Len(line))

\* the text of line between its first colon and its second colon, or the
\* end of the line when it has one colon only
TextBetweenColons(line) ==
    LET first == IndexOf(line, ":", 0)
        second == IndexOf(line, ":", first + 1)
    IN  Substring(line, first + 1, IF second = -1 THEN Len(line) ELSE second)

\* C19 as stated: for each of the six sections, when the line that enters
\* the section contains a colon, the text after the first colon is
\* list-extracted and appended to the section just entered (for dictation
\* and passage, which are not lists: the items change the record); a header
\* line without a colon contributes no content.
C19_InlineContentEverySection ==
    [][AtHeaderLine =>
        LET line == cleanLine(Top.rawLines[Top.i + 1])
            before == Top.extracted
            after == stack'[Len(stack)].extracted
            items == IF Includes(line, ":")
                     THEN extractList(TextAfterFirstColon(line)) ELSE <<>>
        IN  CASE LineBranch(Top) = "quickDrillHeader" ->
                     after.quickDrill = before.quickDrill \o items
              [] LineBranch(Top) = "wordCardsHeader" ->
                     after.wordCards = before.wordCards \o Cards(items)
              [] LineBranch(Top) = "hfwHeader" ->
                     after.hfwList = before.hfwList \o items
              [] LineBranch(Top) = "sentencesHeader" ->
                     after.sentences = before.sentences \o items
              [] OTHER -> IF items = <<>> THEN after = before ELSE after # before
    ]_vars

\* C19, amended: for the sections quickDrill, wordCards and hfw, when the
\* line that enters the section contains a colon, the text between its first
\* and its second colon (to the end of the line when there is one colon) is
\* list-extracted and appended to the section just entered, and nothing else
\* of the record changes; the lines that enter sentences, dictation and
\* passage leave the record as it was, whatever follows their colon; a
\* header line without a colon contributes no content.
C19_InlineContentListSections ==
    [][AtHeaderLine =>
        LET line == cleanLine(Top.rawLines[Top.i + 1])
            before == Top.extracted
            after == stack'[Len(stack)].extracted
            items == IF Includes(line, ":")
                     THEN extractList(TextBetweenColons(line)) ELSE <<>>
        IN  CASE LineBranch(Top) = "quickDrillHeader" ->
                     after = [before EXCEPT !.quickDrill = @ \o items]
              [] LineBranch(Top) = "wordCardsHeader" ->
                     after = [before EXCEPT !.wordCards = @ \o Cards(items)]
              [] LineBranch(Top) = "hfwHeader" ->
                     after = [before EXCEPT !.hfwList = @ \o items]
              [] OTHER -> after = before
    ]_vars

\* C19 witness: a text whose three list headers carry two colons each has
\* been imported, and each list holds the item between the two colons
C19_Witness ==
    /\ Returned("Quick Drill: a: b\nWord Cards: cat: dog\nHFW: the: was",
                Undefined, Undefined)
    /\ stack[1].extracted.quickDrill = <<"a">>
    /\ stack[1].extracted.wordCards = Cards(<<"cat">>)
    /\ stack[1].extracted.hfwList = <<"the">>

\* the line loop of the running call is at a content line of the section
AtContentLine(section) ==
    /\ stack # <<>>
    /\ Top.pc = "lines"
    /\ Top.i < Len(Top.rawLines)
    /\ LineBranch(Top) = section

\* C20 as stated: while the section is quickDrill or hfw, every non-header
\* line without a colon is list-extracted and all its items are appended to
\* quickDrill or hfwList respectively; lines with a colon are skipped.
C20_ColonFreeLinesAppended ==
    [][LET line == cleanLine(Top.rawLines[Top.i + 1])
           before == Top.extracted
           after == stack'[Len(stack)].extracted
           items == IF Includes(line, ":") THEN <<>> ELSE extractList(line)
       IN  /\ AtContentLine("quickDrill") =>
                  after = [before EXCEPT !.quickDrill = @ \o items]
           /\ AtContentLine("hfw") =>
                  after = [before EXCEPT !.hfwList = @ \o items]
    ]_vars

\* C20, amended: while the section is quickDrill, every non-header line that
\* contains neither a colon nor, in lower case, the text 'part' is
\* list-extracted and all its items are appended to quickDrill; while it is
\* hfw, every non-header line without a colon is list-extracted and all its
\* items are appended to hfwList; every other line of the two sections is
\* skipped.
C20_ContentLinesAppended ==
    [][LET line == cleanLine(Top.rawLines[Top.i + 1])
           before == Top.extracted
           after == stack'[Len(stack)].extracted
           taken == ~Includes(line, ":")
           items == IF taken THEN extractList(line) ELSE <<>>
       IN  /\ AtContentLine("quickDrill") =>
                  after = [before EXCEPT !.quickDrill =
                               IF Includes(ToLowerCase(line), "part")
                               THEN @ ELSE @ \o items]
           /\ AtContentLine("hfw") =>
                  after = [before EXCEPT !.hfwList = @ \o items]
    ]_vars

\* C20 witness: a text with a 'part' line and a colon line in each of the
\* two sections has been imported: quickDrill took neither, hfwList took
\* the 'part' line
C20_Witness ==
    /\ Returned("Quick Drill\napart, b\nc: d\nhfw\npart, the\nx: y",
                Undefined, Undefined)
    /\ stack[1].extracted.quickDrill = <<>>
    /\ stack[1].extracted.hfwList = <<"part", "the">>

\* the cleaned line the line loop of the running call is at
CurrentLine == cleanLine(Top.rawLines[Top.i + 1])

\* C21: inside the dictation section, a line whose cleaned lower-cased text
\* starts with 'nonsense' or contains 'nonsense words:' has its items
\* appended to dictation.nonsenseWords and to no other dictation list.
C21_NonsenseKeyword ==
    [][AtContentLine("dictation")
           /\ \/ StartsWith(ToLowerCase(CurrentLine), "nonsense")
              \/ Includes(ToLowerCase(CurrentLine), "nonsense words:")
       => stack'[Len(stack)].extracted.dictation =
              [Top.extracted.dictation EXCEPT
                   !.nonsenseWords = @ \o extractList(CurrentLine)]
    ]_vars

\* C22: inside the dictation section, a line that matches a keyword test is
\* assigned that keyword's sub-mode, whatever numeric marker the raw line
\* starts with and whatever the sub-mode was before the line: the marker is
\* consulted only when no keyword test matched.
C22_KeywordBeforeMarker ==
    [][AtContentLine("dictation")
           /\ KeywordSubMode(ToLowerCase(CurrentLine)) # Undefined
       => stack'[Len(stack)].dictationSubMode =
              KeywordSubMode(ToLowerCase(CurrentLine))
    ]_vars

\* a is a prefix of b
PrefixOf(a, b) == Len(a) <= Len(b) /\ SubSeq(b, 1, Len(a)) = a

\* the names of the six dictation lists
DictationLists ==
    {"sounds", "realWords", "wordElements", "nonsenseWords", "phrases", "sentences"}

\* the line the running call is at has no sub-section keyword and no marker
PlainDictationLine ==
    /\ AtContentLine("dictation")
    /\ KeywordSubMode(ToLowerCase(CurrentLine)) = Undefined
    /\ NumericSubMode(Top.rawLines[Top.i + 1]) = Undefined

OnFreeformPath(f) == f.dataRow = <<>>

\* x is a clean list item
Hygienic(x) ==
    /\ x # ""
    /\ Trim(x) = x
    /\ \A i \in 0..(Len(x) - 1) : CharAt(x, i) \notin {",", ";", "\t"}
    /\ ~Includes(ToLowerCase(x), "word count")

\* every item of the sequence is clean
AllHygienic(list) == \A k \in 1..Len(list) : Hygienic(list[k])

\* C24: in every record the freeform path builds and returns, no element of
\* quickDrill, hfwList, the wordCards texts, or dictation sounds, realWords,
\* wordElements, nonsenseWords and phrases is empty, has leading or trailing
\* whitespace, contains a comma, semicolon or tab, or contains 'word count'
\* in any case.
C24_ListHygiene ==
    \A k \in 1..Len(stack) :
        LET f == stack[k]
        IN  OnFreeformPath(f) =>
                /\ AllHygienic(f.extracted.quickDrill)
                /\ AllHygienic(f.extracted.hfwList)
                /\ \A c \in 1..Len(f.extracted.wordCards) :
                       Hygienic(f.extracted.wordCards[c].text)
                /\ \A list \in DictationLists \ {"sentences"} :
                       AllHygienic(f.extracted.dictation[list])

\* C24 witness: a text with an empty piece, a trailing semicolon, a 'Word
\* count' piece and tabs has been imported by the freeform path
C24_Witness ==
    /\ Returned("HFW: the, , was;\nsaid, Word count 2,\ta\tb", Undefined, Undefined)
    /\ OnFreeformPath(stack[1])
    /\ stack[1].extracted.hfwList = <<"the", "was", "said", "a b">>

\* the line loop of the running call is at a line, whatever its branch
AtAnyLine ==
    /\ stack # <<>>
    /\ Top.pc = "lines"
    /\ Top.i < Len(Top.rawLines)

\* the passage as a string: an unset passage is the empty string
PassageText(extracted) ==
    IF extracted.passage = Undefined THEN "" ELSE extracted.passage

\* C25: while the freeform path processes the lines of a document in order,
\* after each line the previous value of every output list (quickDrill,
\* hfwList, wordCards, sentences, the six dictation lists) and of the
\* passage string is a prefix of its new value: no line removes, reorders
\* or replaces what an earlier line gave.
C25_Additive ==
    [][AtAnyLine =>
        LET before == Top.extracted
            after == stack'[Len(stack)].extracted
        IN  /\ PrefixOf(before.quickDrill, after.quickDrill)
            /\ PrefixOf(before.hfwList, after.hfwList)
            /\ PrefixOf(before.wordCards, after.wordCards)
            /\ PrefixOf(before.sentences, after.sentences)
            /\ \A list \in DictationLists :
                   PrefixOf(before.dictation[list], after.dictation[list])
            /\ PrefixOf(PassageText(before), PassageText(after))
    ]_vars

\* C25 witness: a text whose hfw list is filled by two lines and whose
\* passage and word cards are filled by later lines has been imported
C25_Witness ==
    /\ Returned("Step 2.3\nSight Words: the, was\nsaid\nStory\n"
                    \o "Once upon a time.\nPart 3\nmap  mop",
                Undefined, Undefined)
    /\ stack[1].extracted.hfwList = <<"the", "was", "said">>
    /\ stack[1].extracted.passage = "Once upon a time.\n\n"
    /\ Len(stack[1].extracted.wordCards) = 2

\* the positions of text where 'Step <int>.<int>' occurs, in any case
StepOccurrences(text) == {p \in 0..(Len(text) - 1) : StepPatternAt(text, p)}

\* the positions of text where a bare '<int>.<int>' occurs
BareOccurrences(text) == {p \in 0..(Len(text) - 1) : BarePatternAt(text, p)}

\* the position of the first digit of the number pair of the occurrence at p
PairPosition(text, p) ==
    IF p \in StepOccurrences(text) THEN p + 4 + RunLen(Whitespace, text, p + 4) ELSE p

\* the record of f has the step and substep of the number pair of the
\* occurrence at p, or has them unset when p is -1
HasStepOf(f, p) ==
    IF p = -1
    THEN f.extracted.step = Undefined /\ f.extracted.substep = Undefined
    ELSE <<f.extracted.step, f.extracted.substep>> =
             Groups(f.text, PairPosition(f.text, p))

\* the call is past the step detection of the freeform path
StepDetected(f) == OnFreeformPath(f) /\ f.pc \in {"lines", "return"}

\* C27 as stated: step and substep of the freeform result are those of the
\* leftmost occurrence in the text of either 'Step <int>.<int>' or a bare
\* '<int>.<int>'; with no occurrence they stay unset.
C27_LeftmostOfEither ==
    \A k \in 1..Len(stack) :
        StepDetected(stack[k]) =>
            HasStepOf(stack[k],
                      FirstPosition(StepOccurrences(stack[k].text)
                                        \cup BareOccurrences(stack[k].text)))

\* C27, amended: step and substep of the freeform result are those of the
\* leftmost occurrence of 'Step <int>.<int>' (case-insensitive) when the text
\* has one, wherever bare pairs stand; otherwise those of the leftmost bare
\* '<int>.<int>'; with no occurrence of either they stay unset.
C27_StepPatternFirst ==
    \A k \in 1..Len(stack) :
        StepDetected(stack[k]) =>
            HasStepOf(stack[k],
                      IF StepOccurrences(stack[k].text) # {}
                      THEN FirstPosition(StepOccurrences(stack[k].text))
                      ELSE FirstPosition(BareOccurrences(stack[k].text)))

\* C27 witness: a text with a bare pair before a 'Step' pair has been
\* imported, and the result has the 'Step' pair
C27_Witness ==
    /\ Returned("Review 2.1\nStep 3.4\nQuick Drill: a", Undefined, Undefined)
    /\ stack[1].extracted.step = "3"
    /\ stack[1].extracted.substep = "4"

\* the keywords of the six section headers
HeaderKeywords ==
    {"quick drill", "visual drill", "part 1", "word cards", "word list", "part 3",
     "words for reading", "sight words", "hfw", "high frequency",
     "sentences for reading", "part 5", "reading sentences", "dictation", "part 8",
     "passage", "story", "part 9"}

\* s contains a header keyword, in any case
MentionsHeader(s) == \E k \in HeaderKeywords : Includes(ToLowerCase(s), k)

\* C28: header lines are never content. In the freeform path a line whose
\* cleaned lower-cased text contains a section-header keyword is consumed as
\* a section transition whatever the current section is, so no element of
\* the sentences list and no part of the passage contains any of the
\* keywords.
C28_HeadersAreNotContent ==
    /\ \A k \in 1..Len(stack) :
           OnFreeformPath(stack[k]) =>
               /\ \A n \in 1..Len(stack[k].extracted.sentences) :
                      ~MentionsHeader(stack[k].extracted.sentences[n])
               /\ ~MentionsHeader(PassageText(stack[k].extracted))
    /\ AtAnyLine /\ MentionsHeader(CurrentLine) =>
           LineBranch(Top) \in ListHeaders \cup PlainHeaders

\* C28 witness: a passage whose third line mentions 'story' has been
\* imported: that line was taken as a header and is not in the passage
C28_Witness ==
    /\ Returned("Story\nOnce upon a time.\nA short story told.\nThe end.",
                Undefined, Undefined)
    /\ stack[1].currentSection = "passage"
    /\ stack[1].extracted.passage = "Once upon a time.\n\nThe end.\n\n"

\* the record the line loop ends with when it continues from the frame f
RECURSIVE LinesFrom(_)
LinesFrom(f) ==
    IF f.i >= Len(f.rawLines) THEN f.extracted
    ELSE LinesFrom(AfterLine(LineBranch(f), f))

\* the record the freeform path returns for the whole text
FreeformRecord(text) ==
    LET m == stepMatch(text)
    IN  LinesFrom([NewFrame(text, Undefined, Undefined) EXCEPT
                      !.extracted.step = IF m # <<>> THEN m[1] ELSE @,
                      !.extracted.substep = IF m # <<>> THEN m[2] ELSE @,
                      !.rawLines = rawLinesOf(text)])

\* C29: when the input is detected as CSV and no row qualifies as the data
\* row, the call returns exactly the record the freeform path returns for
\* the whole text, and the targets are not applied to step and substep.
C29_FallThrough ==
    \A k \in 1..Len(stack) :
        LET f == stack[k]
        IN  OnCSVPath(f) /\ FirstQualifying(f) = -1 =>
                /\ f.pc # "threw"
                /\ f.pc = "return" => f.extracted = FreeformRecord(f.text)

(***************************************************************************)
(* Claims about the save store                                             *)
(***************************************************************************)
\* C13: starting from at most MAX_SAVES stored saves, after any sequence of
\* POST, PUT and DELETE requests the number of stored saves never exceeds
\* MAX_SAVES.
C13_SaveCap == Cardinality(saves) <= MAX_SAVES

\* a POST on a full store: the oldest save is gone, the new one is stored and
\* the store is full again
C13_Witness ==
    /\ Cardinality(saves) = MAX_SAVES
    /\ ~Exists(1)
    /\ Exists(now)
    /\ status = 200


\* the step is a create request that was served: the save of the new id is
\* stored
Created == Save(now + 1, now + 1) \in saves'

\* C26: when a create request arrives while MAX_SAVES or more saves are
\* stored, the saves deleted are the oldest ones: every surviving old save
\* was updated at least as recently as every deleted one, and exactly the
\* MAX_SAVES - 1 most recently updated saves plus the new save remain; a
\* create request arriving while fewer are stored deletes nothing.
C26_EvictionOrder ==
    [][Created =>
        LET kept == saves \cap saves'
            deleted == saves \ saves'
        IN  /\ saves' = kept \cup {Save(now + 1, now + 1)}
            /\ IF Cardinality(saves) >= MAX_SAVES
               THEN /\ Cardinality(kept) = MAX_SAVES - 1
                    /\ \A d \in deleted : \A k \in kept : k.updatedAt >= d.updatedAt
               ELSE deleted = {}
    ]_vars

\* C26 witness: the oldest save of a full store was updated and a save was
\* then created: the save evicted is the second oldest, not the updated one
C26_Witness ==
    /\ Cardinality(saves) = MAX_SAVES
    /\ Exists(1)
    /\ ~Exists(2)
    /\ Exists(now)
    /\ status = 200

\* the step serves the request r
Serves(r) == now' = now + 1 /\ request' = r

\* C30: a GET, PUT or DELETE for an id that has no stored save answers 404,
\* and a POST whose body lacks name or data answers 400; in each case the
\* stored saves are exactly as before the request: a rejected POST evicts
\* nothing and a PUT never creates a save.
C30_ErrorsLeaveStore ==
    [][/\ \A method \in {"GET", "PUT", "DELETE"}, id \in RequestIds :
              Serves(Request(method, id, TRUE)) /\ ~Exists(id) =>
                  status' = 404 /\ saves' = saves
       /\ Serves(Request("POST", NoId, FALSE)) =>
              status' = 400 /\ saves' = saves
       /\ Serves(request') /\ request'.method = "PUT" =>
              {s.id : s \in saves'} = {s.id : s \in saves}
    ]_vars

\* C30 witness: a POST without name or data was rejected on a full store,
\* and the oldest save is still there
C30_Witness ==
    /\ request = Request("POST", NoId, FALSE)
    /\ status = 400
    /\ Cardinality(saves) = MAX_SAVES
    /\ Exists(1)
====
